---- MODULE Spec2Model ----
(***************************************************************************)
(* Assignment portal backend: the assignment and submission controllers    *)
(* (Express handlers over two Mongoose models) as a state machine.         *)
(*                                                                         *)
(* Every handler is a chain of steps separated by its awaits on the        *)
(* database.  Step(st) runs one such step of one call.                     *)
(*   SpecAssignment  the assignment handlers, each run to completion in    *)
(*                   one action, calls one at a time;                      *)
(*   SpecSubmission  one assignment and its submissions, handlers run to   *)
(*                   completion, calls one at a time;                      *)
(*   SpecConc        the steps of the calls in flight interleave.          *)
(***************************************************************************)
EXTENDS Integers, Sequences, FiniteSets, TLC

(* ------------------------------ bounds -------------------------------- *)
MaxAssignments == 1
MaxSubmissions == 2
MaxTime == 2
MaxInFlight == 2
MaxListed == 2

(* ------------------------------ values -------------------------------- *)
Teachers == {"T1", "T2"}
Students == {"S1", "S2"}
\* a request field that is absent from the JSON body
Undefined == "<undefined>"
\* the time value of an Invalid Date
NaN == -1

Titles == {"t1", "t2"}
Descriptions == {"d1", "d2"}
DueDates == {1, 2}
StatusEnum == {"Draft", "Published", "Completed"}

\* JS truthiness of a string-valued body field
Truthy(v) == v \notin {Undefined, ""}

TitleInputs == Titles \cup {Undefined}
DescriptionInputs == Descriptions \cup {Undefined}
\* dueDate of a body: absent, or a string with the Date it parses to
DueInputs == {[given |-> FALSE, date |-> NaN], [given |-> TRUE, date |-> NaN]}
             \cup {[given |-> TRUE, date |-> d] : d \in DueDates}
StatusInputs == StatusEnum \cup {Undefined, "Archived"}
\* assignmentId of a body that has none
NoId == 0
\* the ids of the assignments of the report model
ReportIds == {1, 2}
AnswerInputs == {Undefined, "  ", " a1 "}
FeedbackInputs == {Undefined, " f1 "}
\* grade of a body: absent, a JSON number, or a JSON string
GradeInputs == {[type |-> "undefined", val |-> 0], [type |-> "string", val |-> 85]}
               \cup {[type |-> "number", val |-> g] : g \in {-1, 0, 85, 101}}

\* String.prototype.trim on the strings of the model
trim(s) == CASE s = "  " -> ""
             [] s = " a1 " -> "a1"
             [] s = " f1 " -> "f1"
             [] OTHER -> s

Slots == 1..MaxInFlight

VARIABLES assignments, nextId, submissions, now, calls

vars == <<assignments, nextId, submissions, now, calls>>

(* --------------------------- the two models --------------------------- *)
\* Assignment document (schema defaults applied)
NewAssignment(title, description, dueDate, createdBy) ==
  [title |-> title,
   description |-> description,
   dueDate |-> dueDate,
   createdBy |-> createdBy,
   status |-> "Draft"]

\* Submission document (schema defaults and setters applied); an optional
\* path is a set with at most one element
NewSubmission(assignmentId, studentId, answer) ==
  [assignmentId |-> assignmentId, studentId |-> studentId, answer |-> trim(answer),
   reviewed |-> FALSE, grade |-> {}, feedback |-> {}]

\* variant of UniqueIndexAdmits: the index is not unique
UniqueIndexAdmits_any(S, doc) == TRUE

\* the unique index on (assignmentId, studentId): may doc be inserted into S
UniqueIndexAdmits(S, doc) ==
  \A i \in 1..Len(S) :
    ~(S[i].assignmentId = doc.assignmentId /\ S[i].studentId = doc.studentId)

\* Submission.findOne({assignmentId, studentId}): the matching ids
findOne(S, assignmentId, studentId) ==
  {i \in 1..Len(S) : S[i].assignmentId = assignmentId /\ S[i].studentId = studentId}

\* errorHandler: the kind reported for an error a handler throws
errorHandler(err) ==
  CASE err = "ValidationError" -> "ValidationError"
    [] err = "E11000" -> "Conflict"
    [] OTHER -> "ServerError"

(* ------------------------------- calls -------------------------------- *)
\* pc: the await the call stands at; loc: its local variables; kind and site:
\* its result and the step that produced it; hist: history for the properties;
\* data: the body of a successful read
Idle == [pc |-> "idle", op |-> "none", caller |-> "none", req |-> <<>>,
         loc |-> <<>>, kind |-> "none", site |-> "none", hist |-> <<>>, data |-> <<>>]

NewCall(op, caller, req) ==
  [pc |-> "start", op |-> op, caller |-> caller, req |-> req, loc |-> <<>>,
   kind |-> "none", site |-> "none", hist |-> <<>>, data |-> <<>>]

\* res.status(...).json(...): the call ends with a result kind
Respond(c, kind) == [c EXCEPT !.pc = "done", !.kind = kind, !.site = c.pc, !.loc = <<>>]

\* res.status(200).json({ success: true, ... }): a read ends with its data
Send(c, data) == [Respond(c, "OK") EXCEPT !.data = data]

\* a state of the stores together with one call
St(A, N, S, c) == [S |-> S, c |-> c, A |-> A, N |-> N]

\* variant of createAssignment: a document with an unparsable dueDate is
\* stored before the error is reported
createAssignment_storeInvalid(st) ==
  LET c == st.c
      r == c.req
  IN IF ~Truthy(r.title) \/ ~Truthy(r.description) \/ ~r.dueDate.given
       THEN [st EXCEPT !.c = Respond(c, "ValidationError")]
     ELSE St((st.N :> NewAssignment(r.title, r.description, r.dueDate.date, c.caller)) @@ st.A,
             st.N + 1, st.S,
             Respond(c, IF r.dueDate.date = NaN THEN errorHandler("ValidationError")
                        ELSE "OK"))

(* ------------------------ assignmentController ------------------------ *)
\* variant of createAssignment: a body without description is not refused
createAssignment_noCheck(st) ==
  LET c == st.c
      r == c.req
  IN IF ~Truthy(r.title) \/ ~r.dueDate.given
       THEN [st EXCEPT !.c = Respond(c, "ValidationError")]
     ELSE IF r.dueDate.date = NaN
       THEN [st EXCEPT !.c = Respond(c, errorHandler("ValidationError"))]
     ELSE St((st.N :> NewAssignment(r.title, r.description, r.dueDate.date, c.caller)) @@ st.A,
             st.N + 1, st.S, Respond(c, "OK"))

createAssignment(st) ==
  LET c == st.c
      r == c.req
  IN IF ~Truthy(r.title) \/ ~Truthy(r.description) \/ ~r.dueDate.given
       THEN [st EXCEPT !.c = Respond(c, "ValidationError")]
     ELSE IF r.dueDate.date = NaN
       THEN [st EXCEPT !.c = Respond(c, errorHandler("ValidationError"))]
     ELSE St((st.N :> NewAssignment(r.title, r.description, r.dueDate.date, c.caller)) @@ st.A,
             st.N + 1, st.S, Respond(c, "OK"))

\* variant of validTransitions: Draft may also go straight to Completed
validTransitions_skip(from) ==
  CASE from = "Draft" -> {"Published", "Completed"}
    [] from = "Published" -> {"Completed"}
    [] OTHER -> {}

\* the transition table of updateAssignmentStatus
validTransitions(from) ==
  CASE from = "Draft" -> {"Published"}
    [] from = "Published" -> {"Completed"}
    [] OTHER -> {}

\* up to the call of assignment.save()
updateAssignmentStatus_find(st) ==
  LET c == st.c
      r == c.req
  IN IF r.status \notin StatusEnum
       THEN [st EXCEPT !.c = Respond(c, "ValidationError")]
     ELSE IF r.id \notin DOMAIN st.A
       THEN [st EXCEPT !.c = Respond(c, "NotFound")]
     ELSE IF st.A[r.id].createdBy # c.caller
       THEN [st EXCEPT !.c = Respond(c, "Forbidden")]
     ELSE IF r.status \notin validTransitions(st.A[r.id].status)
       THEN [st EXCEPT !.c = Respond(c, "InvalidState")]
     ELSE [st EXCEPT !.c = [c EXCEPT !.pc = "save"]]

\* assignment.save(): writes the modified path, status
updateAssignmentStatus_save(st) ==
  LET c == st.c
      r == c.req
  IN IF r.id \notin DOMAIN st.A
       THEN [st EXCEPT !.c = Respond(c, errorHandler("DocumentNotFoundError"))]
     ELSE [st EXCEPT !.A = [st.A EXCEPT ![r.id].status = r.status],
                     !.c = Respond(c, "OK")]


\* variant of ModifiedPaths: the title is assigned whether or not the body has one
ModifiedPaths_titleAlways(doc, r) ==
  [title |-> IF r.title # doc.title THEN {r.title} ELSE {},
   description |-> IF Truthy(r.description) /\ r.description # doc.description
                     THEN {r.description} ELSE {},
   dueDate |-> IF r.dueDate.given /\ r.dueDate.date # doc.dueDate
                 THEN {r.dueDate.date} ELSE {}]

\* Mongoose change tracking: the paths of doc that the body changes, each
\* with its new value (a path set to the value it has is not modified)
ModifiedPaths(doc, r) ==
  [title |-> IF Truthy(r.title) /\ r.title # doc.title THEN {r.title} ELSE {},
   description |-> IF Truthy(r.description) /\ r.description # doc.description
                     THEN {r.description} ELSE {},
   dueDate |-> IF r.dueDate.given /\ r.dueDate.date # doc.dueDate
                 THEN {r.dueDate.date} ELSE {}]

\* variant of updateAssignment_find: the Draft check is missing
updateAssignment_find_anyStatus(st) ==
  LET c == st.c
      r == c.req
  IN IF r.id \notin DOMAIN st.A
       THEN [st EXCEPT !.c = Respond(c, "NotFound")]
     ELSE IF st.A[r.id].createdBy # c.caller
       THEN [st EXCEPT !.c = Respond(c, "Forbidden")]
     ELSE [st EXCEPT !.c = [c EXCEPT !.pc = "save", !.loc = ModifiedPaths(st.A[r.id], r)]]

\* up to the call of assignment.save()
updateAssignment_find(st) ==
  LET c == st.c
      r == c.req
  IN IF r.id \notin DOMAIN st.A
       THEN [st EXCEPT !.c = Respond(c, "NotFound")]
     ELSE IF st.A[r.id].createdBy # c.caller
       THEN [st EXCEPT !.c = Respond(c, "Forbidden")]
     ELSE IF st.A[r.id].status # "Draft"
       THEN [st EXCEPT !.c = Respond(c, "InvalidState")]
     ELSE [st EXCEPT !.c = [c EXCEPT !.pc = "save", !.loc = ModifiedPaths(st.A[r.id], r)]]

\* $set of the modified paths m on document d
SetPaths(d, m) ==
  [d EXCEPT !.title = IF m.title = {} THEN @ ELSE CHOOSE v \in m.title : TRUE,
            !.description = IF m.description = {} THEN @ ELSE CHOOSE v \in m.description : TRUE,
            !.dueDate = IF m.dueDate = {} THEN @ ELSE CHOOSE v \in m.dueDate : TRUE]

\* assignment.save(): validates, then writes the modified paths
updateAssignment_save(st) ==
  LET c == st.c
      r == c.req
  IN IF NaN \in c.loc.dueDate
       THEN [st EXCEPT !.c = Respond(c, errorHandler("ValidationError"))]
     ELSE IF r.id \notin DOMAIN st.A
       THEN [st EXCEPT !.c = Respond(c, errorHandler("DocumentNotFoundError"))]
     ELSE [st EXCEPT !.A = [st.A EXCEPT ![r.id] = SetPaths(@, c.loc)],
                     !.c = Respond(c, "OK")]

\* variant of deleteAssignment_find: the ownership check is missing
deleteAssignment_find_anyCaller(st) ==
  LET c == st.c
      r == c.req
  IN IF r.id \notin DOMAIN st.A
       THEN [st EXCEPT !.c = Respond(c, "NotFound")]
     ELSE IF st.A[r.id].status # "Draft"
       THEN [st EXCEPT !.c = Respond(c, "InvalidState")]
     ELSE [st EXCEPT !.c = [c EXCEPT !.pc = "delete"]]

\* up to the call of Assignment.findByIdAndDelete
deleteAssignment_find(st) ==
  LET c == st.c
      r == c.req
  IN IF r.id \notin DOMAIN st.A
       THEN [st EXCEPT !.c = Respond(c, "NotFound")]
     ELSE IF st.A[r.id].createdBy # c.caller
       THEN [st EXCEPT !.c = Respond(c, "Forbidden")]
     ELSE IF st.A[r.id].status # "Draft"
       THEN [st EXCEPT !.c = Respond(c, "InvalidState")]
     ELSE [st EXCEPT !.c = [c EXCEPT !.pc = "delete"]]

\* Assignment.findByIdAndDelete(id)
deleteAssignment_delete(st) ==
  [st EXCEPT !.A = [i \in (DOMAIN st.A) \ {st.c.req.id} |-> st.A[i]],
             !.c = Respond(st.c, "OK")]

(* ------------------------ submissionController ------------------------ *)
\* variant of createSubmission_findById: the due date is not checked
createSubmission_findById_noDue(st, t) ==
  LET c == st.c
      r == c.req
  IN IF r.assignmentId = NoId \/ ~Truthy(r.answer)
       THEN [st EXCEPT !.c = Respond(c, "ValidationError")]
     ELSE IF r.assignmentId \notin DOMAIN st.A
       THEN [st EXCEPT !.c = Respond(c, "NotFound")]
     ELSE IF st.A[r.assignmentId].status # "Published"
       THEN [st EXCEPT !.c = Respond(c, "InvalidState")]
     ELSE [st EXCEPT !.c = [c EXCEPT !.pc = "findOne"]]

\* variant of createSubmission_findById: a Create at the due date is refused
createSubmission_findById_atDue(st, t) ==
  LET c == st.c
      r == c.req
  IN IF r.assignmentId = NoId \/ ~Truthy(r.answer)
       THEN [st EXCEPT !.c = Respond(c, "ValidationError")]
     ELSE IF r.assignmentId \notin DOMAIN st.A
       THEN [st EXCEPT !.c = Respond(c, "NotFound")]
     ELSE IF st.A[r.assignmentId].status # "Published"
       THEN [st EXCEPT !.c = Respond(c, "InvalidState")]
     ELSE IF t >= st.A[r.assignmentId].dueDate
       THEN [st EXCEPT !.c = Respond(c, "InvalidState")]
     ELSE [st EXCEPT !.c = [c EXCEPT !.pc = "findOne"]]

\* variant of createSubmission_findById: the status is not checked
createSubmission_findById_noStatus(st, t) ==
  LET c == st.c
      r == c.req
  IN IF r.assignmentId = NoId \/ ~Truthy(r.answer)
       THEN [st EXCEPT !.c = Respond(c, "ValidationError")]
     ELSE IF r.assignmentId \notin DOMAIN st.A
       THEN [st EXCEPT !.c = Respond(c, "NotFound")]
     ELSE IF t > st.A[r.assignmentId].dueDate
       THEN [st EXCEPT !.c = Respond(c, "InvalidState")]
     ELSE [st EXCEPT !.c = [c EXCEPT !.pc = "findOne"]]

\* up to the call of Submission.findOne; t is the time new Date() gives
createSubmission_findById(st, t) ==
  LET c == st.c
      r == c.req
  IN IF r.assignmentId = NoId \/ ~Truthy(r.answer)
       THEN [st EXCEPT !.c = Respond(c, "ValidationError")]
     ELSE IF r.assignmentId \notin DOMAIN st.A
       THEN [st EXCEPT !.c = Respond(c, "NotFound")]
     ELSE IF st.A[r.assignmentId].status # "Published"
       THEN [st EXCEPT !.c = Respond(c, "InvalidState")]
     ELSE IF t > st.A[r.assignmentId].dueDate
       THEN [st EXCEPT !.c = Respond(c, "InvalidState")]
     ELSE [st EXCEPT !.c = [c EXCEPT !.pc = "findOne"]]

\* Submission.findOne and the check of its result
createSubmission_findOne(st) ==
  LET c == st.c
      r == c.req
  IN IF findOne(st.S, r.assignmentId, c.caller) # {}
       THEN [st EXCEPT !.c = Respond(c, "Conflict")]
     ELSE [st EXCEPT !.c = [c EXCEPT !.pc = "create"]]

\* Submission.create: validates, then inserts under the unique index
createSubmission_create(st) ==
  LET c == st.c
      r == c.req
      doc == NewSubmission(r.assignmentId, c.caller, r.answer)
  IN IF doc.answer = ""
       THEN [st EXCEPT !.c = Respond(c, errorHandler("ValidationError"))]
     ELSE IF ~UniqueIndexAdmits(st.S, doc)
       THEN [st EXCEPT !.c = Respond(c, errorHandler("E11000"))]
     ELSE [st EXCEPT !.S = Append(st.S, doc), !.c = Respond(c, "OK")]

\* variant of ReviewedPaths: reviewed is set only along with a grade or a feedback
ReviewedPaths_ifGraded(doc, r) ==
  [reviewed |-> IF ~doc.reviewed /\ (r.grade.type # "undefined" \/ r.feedback # Undefined)
                  THEN {TRUE} ELSE {},
   grade |-> IF r.grade.type # "undefined" /\ doc.grade # {r.grade.val}
               THEN {r.grade.val} ELSE {},
   feedback |-> IF r.feedback # Undefined /\ doc.feedback # {trim(r.feedback)}
                  THEN {trim(r.feedback)} ELSE {}]

\* the paths of submission doc that a review with body r changes
ReviewedPaths(doc, r) ==
  [reviewed |-> IF ~doc.reviewed THEN {TRUE} ELSE {},
   grade |-> IF r.grade.type # "undefined" /\ doc.grade # {r.grade.val}
               THEN {r.grade.val} ELSE {},
   feedback |-> IF r.feedback # Undefined /\ doc.feedback # {trim(r.feedback)}
                  THEN {trim(r.feedback)} ELSE {}]

\* variant of reviewSubmission_find: a grade above 100 is not refused
reviewSubmission_find_noMax(st) ==
  LET c == st.c
      r == c.req
  IN IF r.id \notin 1..Len(st.S)
       THEN [st EXCEPT !.c = Respond(c, "NotFound")]
     ELSE IF st.S[r.id].assignmentId \notin DOMAIN st.A
       THEN [st EXCEPT !.c = Respond(c, errorHandler("TypeError"))]
     ELSE IF st.A[st.S[r.id].assignmentId].createdBy # c.caller
       THEN [st EXCEPT !.c = Respond(c, "Forbidden")]
     ELSE IF r.grade.type # "undefined" /\ (r.grade.type # "number" \/ r.grade.val < 0)
       THEN [st EXCEPT !.c = Respond(c, "ValidationError")]
     ELSE [st EXCEPT !.c = [c EXCEPT !.pc = "save", !.loc = ReviewedPaths(st.S[r.id], r)]]

\* variant of reviewSubmission_find: any teacher may review
reviewSubmission_find_anyTeacher(st) ==
  LET c == st.c
      r == c.req
  IN IF r.id \notin 1..Len(st.S)
       THEN [st EXCEPT !.c = Respond(c, "NotFound")]
     ELSE IF st.S[r.id].assignmentId \notin DOMAIN st.A
       THEN [st EXCEPT !.c = Respond(c, errorHandler("TypeError"))]
     ELSE IF r.grade.type # "undefined"
             /\ (r.grade.type # "number" \/ r.grade.val < 0 \/ r.grade.val > 100)
       THEN [st EXCEPT !.c = Respond(c, "ValidationError")]
     ELSE [st EXCEPT !.c = [c EXCEPT !.pc = "save", !.loc = ReviewedPaths(st.S[r.id], r)]]

\* up to the call of submission.save()
reviewSubmission_find(st) ==
  LET c == st.c
      r == c.req
  IN IF r.id \notin 1..Len(st.S)
       THEN [st EXCEPT !.c = Respond(c, "NotFound")]
     ELSE IF st.S[r.id].assignmentId \notin DOMAIN st.A
       THEN [st EXCEPT !.c = Respond(c, errorHandler("TypeError"))]
     ELSE IF st.A[st.S[r.id].assignmentId].createdBy # c.caller
       THEN [st EXCEPT !.c = Respond(c, "Forbidden")]
     ELSE IF r.grade.type # "undefined"
             /\ (r.grade.type # "number" \/ r.grade.val < 0 \/ r.grade.val > 100)
       THEN [st EXCEPT !.c = Respond(c, "ValidationError")]
     ELSE [st EXCEPT !.c = [c EXCEPT !.pc = "save", !.loc = ReviewedPaths(st.S[r.id], r)]]

\* variant of reviewSubmission_save: the review also rewrites the answer
reviewSubmission_save_answer(st) ==
  LET c == st.c
      m == c.loc
      id == c.req.id
  IN [st EXCEPT !.S = [st.S EXCEPT ![id].answer = "reviewed",
                                    ![id].grade = IF m.grade = {} THEN @ ELSE m.grade,
                                    ![id].feedback = IF m.feedback = {} THEN @ ELSE m.feedback,
                                    ![id].reviewed = IF m.reviewed = {} THEN @ ELSE TRUE],
                !.c = Respond(c, "OK")]

\* variant of reviewSubmission_save: reviewed tells whether this review graded
reviewSubmission_save_graded(st) ==
  LET c == st.c
      m == c.loc
      id == c.req.id
  IN [st EXCEPT !.S = [st.S EXCEPT ![id].grade = IF m.grade = {} THEN @ ELSE m.grade,
                                    ![id].feedback = IF m.feedback = {} THEN @ ELSE m.feedback,
                                    ![id].reviewed = c.req.grade.type # "undefined"],
                !.c = Respond(c, "OK")]

\* variant of reviewSubmission_save: a review without a grade clears the grade
reviewSubmission_save_clear(st) ==
  LET c == st.c
      m == c.loc
      id == c.req.id
  IN [st EXCEPT !.S = [st.S EXCEPT ![id].grade = IF c.req.grade.type = "undefined"
                                                    THEN {} ELSE {c.req.grade.val},
                                    ![id].feedback = IF m.feedback = {} THEN @ ELSE m.feedback,
                                    ![id].reviewed = IF m.reviewed = {} THEN @ ELSE TRUE],
                !.c = Respond(c, "OK")]

\* submission.save(): writes the modified paths
reviewSubmission_save(st) ==
  LET c == st.c
      m == c.loc
      id == c.req.id
  IN [st EXCEPT !.S = [st.S EXCEPT ![id].grade = IF m.grade = {} THEN @ ELSE m.grade,
                                    ![id].feedback = IF m.feedback = {} THEN @ ELSE m.feedback,
                                    ![id].reviewed = IF m.reviewed = {} THEN @ ELSE TRUE],
                !.c = Respond(c, "OK")]

(* ------------------------------- reads -------------------------------- *)
\* a query parameter of GET /assignments: absent, a text that is no number,
\* or the decimal text of an integer
QueryAbsent == [type |-> "absent", val |-> 0]
QueryText == [type |-> "text", val |-> 0]
QueryInt(n) == [type |-> "int", val |-> n]
PageInputs == {QueryAbsent, QueryText} \cup {QueryInt(n) : n \in (0 - 1)..MaxListed}
LimitInputs == {QueryAbsent} \cup {QueryInt(n) : n \in 0..MaxListed}

\* req.user.role, as the token of user u carries it
role(u) == IF u \in Teachers THEN "teacher" ELSE "student"

\* parseInt(q, 10) of a query parameter: no number (NaN) is the empty set
parseInt(q) == IF q.type = "int" THEN {q.val} ELSE {}

\* p || d for a parsed number p: NaN and 0 are falsy
OrDefault(p, d) == IF p = {} \/ p = {0} THEN d ELSE CHOOSE n \in p : TRUE

DefaultPage == 1
DefaultLimit == 10

\* Math.ceil(a / b) for a >= 0 and b > 0
Ceil(a, b) == (a + b - 1) \div b

\* the ids of set ids, newest first: ids are handed out in creation order
RECURSIVE NewestFirst(_)
NewestFirst(ids) ==
  IF ids = {} THEN <<>>
  ELSE LET m == CHOOSE x \in ids : \A y \in ids : y <= x
       IN <<m>> \o NewestFirst(ids \ {m})

\* cursor.skip(k).limit(n) on the sequence q, for k >= 0 and n > 0
SkipLimit(q, k, n) ==
  SubSeq(q, k + 1, IF k + n < Len(q) THEN k + n ELSE Len(q))

\* variant of ListFilter: a student's status parameter replaces Published
ListFilter_studentStatus(u, status) ==
  IF role(u) = "student"
    THEN [createdBy |-> {},
          status |-> IF Truthy(status) /\ status \in StatusEnum THEN {status} ELSE {"Published"}]
  ELSE [createdBy |-> {u},
        status |-> IF Truthy(status) /\ status \in StatusEnum THEN {status} ELSE {}]

\* variant of ListFilter: a teacher's filter has no createdBy
ListFilter_anyOwner(u, status) ==
  IF role(u) = "student"
    THEN [createdBy |-> {}, status |-> {"Published"}]
  ELSE [createdBy |-> {},
        status |-> IF Truthy(status) /\ status \in StatusEnum THEN {status} ELSE {}]

\* the filter of getAssignments for caller u and query parameter status;
\* a field that is not set is the empty set
ListFilter(u, status) ==
  IF role(u) = "student"
    THEN [createdBy |-> {}, status |-> {"Published"}]
  ELSE [createdBy |-> {u},
        status |-> IF Truthy(status) /\ status \in StatusEnum THEN {status} ELSE {}]

\* the ids of the assignments of A that filter f matches
Matching(A, f) ==
  { id \in DOMAIN A : /\ (f.createdBy = {} \/ A[id].createdBy \in f.createdBy)
                      /\ (f.status = {} \/ A[id].status \in f.status) }

getAssignments(st) ==
  LET c == st.c
      r == c.req
      page == OrDefault(parseInt(r.page), DefaultPage)
      limit == OrDefault(parseInt(r.limit), DefaultLimit)
      startIndex == (page - 1) * limit
      filter == ListFilter(c.caller, r.status)
      found == NewestFirst(Matching(st.A, filter))
      total == Cardinality(Matching(st.A, filter))
  IN IF startIndex < 0
       THEN [st EXCEPT !.c = Respond(c, errorHandler("MongoServerError"))]
     ELSE [st EXCEPT !.c = Send(c,
            [data |-> SkipLimit(found, startIndex, limit),
             pagination |-> [currentPage |-> page,
                             totalPages |-> Ceil(total, limit),
                             totalAssignments |-> total,
                             hasNext |-> page < Ceil(total, limit),
                             hasPrev |-> page > 1]])]

\* variant of getAssignment: a student is shown an assignment of any status
getAssignment_anyStatus(st) ==
  LET c == st.c
      id == c.req.id
  IN IF id \notin DOMAIN st.A
       THEN [st EXCEPT !.c = Respond(c, "NotFound")]
     ELSE IF role(c.caller) = "teacher" /\ st.A[id].createdBy # c.caller
       THEN [st EXCEPT !.c = Respond(c, "Forbidden")]
     ELSE [st EXCEPT !.c = Send(c, [id |-> id] @@ st.A[id])]

getAssignment(st) ==
  LET c == st.c
      id == c.req.id
  IN IF id \notin DOMAIN st.A
       THEN [st EXCEPT !.c = Respond(c, "NotFound")]
     ELSE IF role(c.caller) = "student" /\ st.A[id].status # "Published"
       THEN [st EXCEPT !.c = Respond(c, "Forbidden")]
     ELSE IF role(c.caller) = "teacher" /\ st.A[id].createdBy # c.caller
       THEN [st EXCEPT !.c = Respond(c, "Forbidden")]
     ELSE [st EXCEPT !.c = Send(c, [id |-> id] @@ st.A[id])]

\* variant of getSubmissionsByAssignment: the find has no filter
getSubmissionsByAssignment_all(st) ==
  LET c == st.c
      id == c.req.assignmentId
      found == NewestFirst(1..Len(st.S))
  IN IF id \notin DOMAIN st.A
       THEN [st EXCEPT !.c = Respond(c, "NotFound")]
     ELSE IF st.A[id].createdBy # c.caller
       THEN [st EXCEPT !.c = Respond(c, "Forbidden")]
     ELSE [st EXCEPT !.c = Send(c, [k \in 1..Len(found) |-> [id |-> found[k]] @@ st.S[found[k]]])]

\* the submissions of one assignment, newest first: submissions are stored
\* in the order they were made
getSubmissionsByAssignment(st) ==
  LET c == st.c
      id == c.req.assignmentId
      found == NewestFirst({ i \in 1..Len(st.S) : st.S[i].assignmentId = id })
  IN IF id \notin DOMAIN st.A
       THEN [st EXCEPT !.c = Respond(c, "NotFound")]
     ELSE IF st.A[id].createdBy # c.caller
       THEN [st EXCEPT !.c = Respond(c, "Forbidden")]
     ELSE [st EXCEPT !.c = Send(c, [k \in 1..Len(found) |-> [id |-> found[k]] @@ st.S[found[k]]])]

\* the sum of the grades of the submissions of S at the indices idx, all graded
RECURSIVE SumGrades(_, _)
SumGrades(S, idx) ==
  IF idx = {} THEN 0
  ELSE LET i == CHOOSE x \in idx : TRUE
       IN (CHOOSE g \in S[i].grade : TRUE) + SumGrades(S, idx \ {i})

\* $avg over the submissions at idx: a submission without grade is skipped;
\* the mean is the fraction num/den, and null (no graded one) the empty set
Avg(S, idx) ==
  LET graded == { i \in idx : S[i].grade # {} }
  IN IF graded = {} THEN {}
     ELSE {[num |-> SumGrades(S, graded), den |-> Cardinality(graded)]}

\* variant of RoundHundredths: the mean is rounded to a whole number
RoundHundredths_noScale(q) == (2 * q.num + q.den) \div (2 * q.den)

\* Math.round(q * 100) of the fraction q >= 0: the mean in hundredths
RoundHundredths(q) == (200 * q.num + q.den) \div (2 * q.den)

\* variant of submissionStats: the aggregate has no $match stage
submissionStats_noMatch(S, assignmentIds) ==
  LET matched == 1..Len(S)
      groups == { S[i].assignmentId : i \in matched }
  IN [g \in groups |->
       LET of == { i \in matched : S[i].assignmentId = g }
       IN [totalSubmissions |-> Cardinality(of),
           reviewedSubmissions |-> Cardinality({ i \in of : S[i].reviewed = TRUE }),
           averageGrade |-> Avg(S, of)]]

\* Submission.aggregate([$match, $group]): one group per assignment of
\* assignmentIds that has a submission
submissionStats(S, assignmentIds) ==
  LET matched == { i \in 1..Len(S) : S[i].assignmentId \in assignmentIds }
      groups == { S[i].assignmentId : i \in matched }
  IN [g \in groups |->
       LET of == { i \in matched : S[i].assignmentId = g }
       IN [totalSubmissions |-> Cardinality(of),
           reviewedSubmissions |-> Cardinality({ i \in of : S[i].reviewed = TRUE }),
           averageGrade |-> Avg(S, of)]]

\* the stats of an assignment that has no group
NoStats == [totalSubmissions |-> 0, reviewedSubmissions |-> 0, averageGrade |-> {}]

\* variant of analyticsRow: the pending reviews are all the submissions
analyticsRow_allPending(id, doc, stats) ==
  [title |-> doc.title,
   dueDate |-> doc.dueDate,
   status |-> doc.status,
   assignmentId |-> id,
   totalSubmissions |-> stats.totalSubmissions,
   reviewedSubmissions |-> stats.reviewedSubmissions,
   averageGrade |-> IF stats.averageGrade # {} /\ (CHOOSE q \in stats.averageGrade : TRUE).num # 0
                      THEN {RoundHundredths(CHOOSE q \in stats.averageGrade : TRUE)}
                    ELSE {},
   pendingReviews |-> stats.totalSubmissions]

\* the row of assignment id; averageGrade is in hundredths, null the empty
\* set; a mean that is null or 0 is falsy
analyticsRow(id, doc, stats) ==
  [title |-> doc.title,
   dueDate |-> doc.dueDate,
   status |-> doc.status,
   assignmentId |-> id,
   totalSubmissions |-> stats.totalSubmissions,
   reviewedSubmissions |-> stats.reviewedSubmissions,
   averageGrade |-> IF stats.averageGrade # {} /\ (CHOOSE q \in stats.averageGrade : TRUE).num # 0
                      THEN {RoundHundredths(CHOOSE q \in stats.averageGrade : TRUE)}
                    ELSE {},
   pendingReviews |-> stats.totalSubmissions - stats.reviewedSubmissions]

\* the ids of set ids in the order of creation
RECURSIVE OldestFirst(_)
OldestFirst(ids) ==
  IF ids = {} THEN <<>>
  ELSE LET m == CHOOSE x \in ids : \A y \in ids : x <= y
       IN <<m>> \o OldestFirst(ids \ {m})

\* stats.reduce((sum, stat) => sum + stat[field], 0)
RECURSIVE Reduce(_, _, _)
Reduce(stats, field, groups) ==
  IF groups = {} THEN 0
  ELSE LET g == CHOOSE x \in groups : TRUE
       IN stats[g][field] + Reduce(stats, field, groups \ {g})

getAnalytics(st) ==
  LET c == st.c
      assignmentIds == { id \in DOMAIN st.A : st.A[id].createdBy = c.caller }
      found == OldestFirst(assignmentIds)
      stats == submissionStats(st.S, assignmentIds)
      analytics == [k \in 1..Len(found) |->
                     analyticsRow(found[k], st.A[found[k]],
                                  IF found[k] \in DOMAIN stats THEN stats[found[k]]
                                  ELSE NoStats)]
      totalSubmissions == Reduce(stats, "totalSubmissions", DOMAIN stats)
      totalReviewed == Reduce(stats, "reviewedSubmissions", DOMAIN stats)
  IN [st EXCEPT !.c = Send(c,
       [overview |-> [totalAssignments |-> Len(found),
                      totalSubmissions |-> totalSubmissions,
                      pendingReviews |-> totalSubmissions - totalReviewed,
                      totalReviewed |-> totalReviewed],
        assignmentAnalytics |-> analytics])]

\* the submissions of the calling student, newest first
getMySubmissions(st) ==
  LET c == st.c
      found == NewestFirst({ i \in 1..Len(st.S) : st.S[i].studentId = c.caller })
  IN [st EXCEPT !.c = Send(c, [k \in 1..Len(found) |-> [id |-> found[k]] @@ st.S[found[k]]])]

(* ------------------------------ dispatch ------------------------------ *)
\* one step of the call st.c against the stores, at time t
Step(st, t) ==
  LET c == st.c
  IN CASE c.op = "createAssignment" /\ c.pc = "start" -> createAssignment(st)
       [] c.op = "updateAssignment" /\ c.pc = "start" -> updateAssignment_find(st)
       [] c.op = "updateAssignment" /\ c.pc = "save" -> updateAssignment_save(st)
       [] c.op = "deleteAssignment" /\ c.pc = "start" -> deleteAssignment_find(st)
       [] c.op = "deleteAssignment" /\ c.pc = "delete" -> deleteAssignment_delete(st)
       [] c.op = "updateAssignmentStatus" /\ c.pc = "start" -> updateAssignmentStatus_find(st)
       [] c.op = "updateAssignmentStatus" /\ c.pc = "save" -> updateAssignmentStatus_save(st)
       [] c.op = "createSubmission" /\ c.pc = "start" -> createSubmission_findById(st, t)
       [] c.op = "createSubmission" /\ c.pc = "findOne" -> createSubmission_findOne(st)
       [] c.op = "createSubmission" /\ c.pc = "create" -> createSubmission_create(st)
       [] c.op = "reviewSubmission" /\ c.pc = "start" -> reviewSubmission_find(st)
       [] c.op = "reviewSubmission" /\ c.pc = "save" -> reviewSubmission_save(st)
       [] c.op = "getAssignments" /\ c.pc = "start" -> getAssignments(st)
       [] c.op = "getAssignment" /\ c.pc = "start" -> getAssignment(st)
       [] c.op = "getSubmissionsByAssignment" /\ c.pc = "start" -> getSubmissionsByAssignment(st)
       [] c.op = "getAnalytics" /\ c.pc = "start" -> getAnalytics(st)
       [] c.op = "getMySubmissions" /\ c.pc = "start" -> getMySubmissions(st)
       [] OTHER -> st

\* a handler awaits at most three database operations
RunToEnd(st, t) == Step(Step(Step(st, t), t), t)

(* ------------------------------ actions ------------------------------- *)
\* the whole handler of call c0, with no other call in between
Handle(c0) ==
  LET st == RunToEnd(St(assignments, nextId, submissions, c0), now)
  IN /\ calls[1].pc = "idle"
     /\ assignments' = st.A
     /\ nextId' = st.N
     /\ Len(st.S) <= MaxSubmissions
     /\ submissions' = st.S
     /\ calls' = [calls EXCEPT ![1] = st.c]
     /\ UNCHANGED now

\* the response is sent and the call is over
Return ==
  \E s \in Slots :
    /\ calls[s].pc = "done"
    /\ calls' = [calls EXCEPT ![s] = Idle]
    /\ UNCHANGED <<assignments, nextId, submissions, now>>

Tick ==
  /\ now < MaxTime
  /\ now' = now + 1
  /\ UNCHANGED <<assignments, nextId, submissions, calls>>

CreateAssignment ==
  /\ nextId <= MaxAssignments
  /\ \E u \in Teachers, t \in TitleInputs, d \in DescriptionInputs, due \in DueInputs :
       Handle(NewCall("createAssignment", u, [title |-> t, description |-> d, dueDate |-> due]))

UpdateAssignment ==
  \E u \in Teachers, id \in 1..MaxAssignments,
     t \in TitleInputs, d \in DescriptionInputs, due \in DueInputs :
    Handle(NewCall("updateAssignment", u,
                   [title |-> t, description |-> d, dueDate |-> due, id |-> id]))

DeleteAssignment ==
  \E u \in Teachers, id \in 1..MaxAssignments :
    Handle(NewCall("deleteAssignment", u, [id |-> id]))

UpdateAssignmentStatus ==
  \E u \in Teachers, id \in 1..MaxAssignments, s \in StatusInputs :
    Handle(NewCall("updateAssignmentStatus", u, [status |-> s, id |-> id]))

CreateSubmission ==
  /\ \E u \in Students, id \in {NoId} \cup 1..MaxAssignments, a \in AnswerInputs :
       Handle(NewCall("createSubmission", u, [assignmentId |-> id, answer |-> a]))

ReviewSubmission ==
  \E u \in Teachers, id \in 1..MaxSubmissions, g \in GradeInputs, f \in FeedbackInputs :
    Handle(NewCall("reviewSubmission", u, [grade |-> g, feedback |-> f, id |-> id]))

(* --------------------------- SpecAssignment --------------------------- *)
Init ==
  /\ assignments = <<>>
  /\ nextId = 1
  /\ submissions = <<>>
  /\ now = 0
  /\ calls = [s \in Slots |-> Idle]

NextAssignment ==
  \/ CreateAssignment
  \/ UpdateAssignment
  \/ DeleteAssignment
  \/ UpdateAssignmentStatus
  \/ Return

SpecAssignment == Init /\ [][NextAssignment]_vars

(* --------------------------- SpecSubmission --------------------------- *)
\* a teacher has created one assignment
InitSubmission ==
  /\ \E u \in Teachers, due \in DueDates :
       assignments = (1 :> NewAssignment("t1", "d1", due, u))
  /\ nextId = 2
  /\ submissions = <<>>
  /\ now = 0
  /\ calls = [s \in Slots |-> Idle]

NextSubmission ==
  \/ DeleteAssignment
  \/ UpdateAssignmentStatus
  \/ CreateSubmission
  \/ ReviewSubmission
  \/ Tick
  \/ Return

SpecSubmission == InitSubmission /\ [][NextSubmission]_vars

(* ------------------------------ SpecList ------------------------------ *)
GetAssignments ==
  \E u \in Teachers \cup Students, s \in StatusInputs, p \in PageInputs, l \in LimitInputs :
    Handle(NewCall("getAssignments", u, [status |-> s, page |-> p, limit |-> l]))

GetAssignment ==
  \E u \in Teachers \cup Students, id \in {NoId} \cup 1..MaxListed :
    Handle(NewCall("getAssignment", u, [id |-> id]))

\* the assignments a teacher can have stored, in each status
StoredAssignments ==
  { [NewAssignment("t1", "d1", 1, u) EXCEPT !.status = s] : u \in Teachers, s \in StatusEnum }

\* teachers have created up to MaxListed assignments, moved some of them on
\* and deleted some of them
InitList ==
  /\ \E ids \in SUBSET (1..MaxListed) : assignments \in [ids -> StoredAssignments]
  /\ nextId = MaxListed + 1
  /\ submissions = <<>>
  /\ now = 0
  /\ calls = [s \in Slots |-> Idle]

NextList ==
  \/ GetAssignments
  \/ GetAssignment
  \/ Return

SpecList == InitList /\ [][NextList]_vars

(* ----------------------------- SpecReport ----------------------------- *)
GetSubmissionsByAssignment ==
  \E u \in Teachers, id \in {NoId} \cup ReportIds :
    Handle(NewCall("getSubmissionsByAssignment", u, [assignmentId |-> id]))

GetAnalytics ==
  \E u \in Teachers : Handle(NewCall("getAnalytics", u, <<>>))

\* the submissions that can be stored for the assignments A: made to an
\* assignment that has been published, unreviewed or reviewed with or without
\* a grade
StoredSubmissions(A) ==
  { [NewSubmission(id, u, "a1") EXCEPT !.reviewed = r.reviewed, !.grade = r.grade] :
      id \in { x \in DOMAIN A : A[x].status # "Draft" },
      u \in Students,
      r \in {[reviewed |-> FALSE, grade |-> {}]}
             \cup {[reviewed |-> TRUE, grade |-> g] : g \in {{}, {0}, {85}}} }

\* teachers have created assignments and students have made up to
\* MaxSubmissions submissions, no two for the same assignment and student
InitReport ==
  /\ \E ids \in SUBSET ReportIds : assignments \in [ids -> StoredAssignments]
  /\ nextId = 1 + Cardinality(ReportIds)
  /\ \E n \in 0..MaxSubmissions :
       /\ submissions \in [1..n -> StoredSubmissions(assignments)]
       /\ \A i, j \in 1..n :
            ( /\ submissions[i].assignmentId = submissions[j].assignmentId
              /\ submissions[i].studentId = submissions[j].studentId ) => i = j
  /\ now = 0
  /\ calls = [s \in Slots |-> Idle]

NextReport ==
  \/ GetSubmissionsByAssignment
  \/ GetAnalytics
  \/ Return

SpecReport == InitReport /\ [][NextReport]_vars

(* ----------------------------- SpecSystem ----------------------------- *)
\* the middleware behind authenticate: the role a route asks for
teacherOnly(u) == role(u) = "teacher"
studentOnly(u) == role(u) = "student"

\* variant of RouteGuard: POST /submissions asks for no role
RouteGuard_open(op) ==
  CASE op \in {"createAssignment", "updateAssignment", "deleteAssignment",
               "updateAssignmentStatus", "getSubmissionsByAssignment",
               "reviewSubmission", "getAnalytics"} -> "teacher"
    [] op \in {"getMySubmissions"} -> "student"
    [] OTHER -> "any"

\* the role middleware a route puts in front of handler op
RouteGuard(op) ==
  CASE op \in {"createAssignment", "updateAssignment", "deleteAssignment",
               "updateAssignmentStatus", "getSubmissionsByAssignment",
               "reviewSubmission", "getAnalytics"} -> "teacher"
    [] op \in {"createSubmission", "getMySubmissions"} -> "student"
    [] OTHER -> "any"

Admits(op, u) ==
  CASE RouteGuard(op) = "teacher" -> teacherOnly(u)
    [] RouteGuard(op) = "student" -> studentOnly(u)
    [] OTHER -> TRUE

\* the route of call c0: the role middleware, then the whole handler
Route(c0) ==
  IF Admits(c0.op, c0.caller)
    THEN Handle(c0)
  ELSE /\ calls[1].pc = "idle"
       /\ calls' = [calls EXCEPT ![1] = Respond([c0 EXCEPT !.pc = "route"], "Forbidden")]
       /\ UNCHANGED <<assignments, nextId, submissions, now>>

\* the callers and the bodies of the calls of the whole system
SysUsers == {"T1", "T2", "S1"}
SysCreateInputs ==
  { [title |-> t, description |-> "d1", dueDate |-> due] :
      t \in {"t1"}, due \in {[given |-> TRUE, date |-> 1], [given |-> TRUE, date |-> NaN]} }
  \cup { [title |-> Undefined, description |-> "d1", dueDate |-> [given |-> TRUE, date |-> 1]] }
SysUpdateInputs ==
  { [title |-> "t2", description |-> Undefined, dueDate |-> [given |-> FALSE, date |-> NaN]],
    [title |-> Undefined, description |-> Undefined, dueDate |-> [given |-> TRUE, date |-> NaN]] }
SysStatusInputs == {"Published", "Completed", "Archived"}
SysAnswerInputs == {"  ", " a1 "}
SysGradeInputs == { [type |-> "undefined", val |-> 0], [type |-> "number", val |-> 85],
                    [type |-> "number", val |-> 101] }

PostAssignment ==
  /\ nextId <= MaxAssignments
  /\ \E u \in SysUsers, b \in SysCreateInputs : Route(NewCall("createAssignment", u, b))

PutAssignment ==
  \E u \in SysUsers, id \in 1..MaxAssignments, b \in SysUpdateInputs :
    Route(NewCall("updateAssignment", u,
                  [title |-> b.title, description |-> b.description,
                   dueDate |-> b.dueDate, id |-> id]))

DeleteAssignmentRoute ==
  \E u \in SysUsers, id \in 1..MaxAssignments :
    Route(NewCall("deleteAssignment", u, [id |-> id]))

PutAssignmentStatus ==
  \E u \in SysUsers, id \in 1..MaxAssignments, x \in SysStatusInputs :
    Route(NewCall("updateAssignmentStatus", u, [status |-> x, id |-> id]))

PostSubmission ==
  \E u \in SysUsers, id \in {NoId} \cup 1..MaxAssignments, a \in SysAnswerInputs :
    Route(NewCall("createSubmission", u, [assignmentId |-> id, answer |-> a]))

PutReview ==
  \E u \in SysUsers, id \in 1..MaxSubmissions, g \in SysGradeInputs :
    Route(NewCall("reviewSubmission", u, [grade |-> g, feedback |-> Undefined, id |-> id]))

GetSubmissionsRoute ==
  \E u \in SysUsers, id \in 1..MaxAssignments :
    Route(NewCall("getSubmissionsByAssignment", u, [assignmentId |-> id]))

GetMySubmissions ==
  \E u \in SysUsers : Route(NewCall("getMySubmissions", u, <<>>))

GetAnalyticsRoute ==
  \E u \in SysUsers : Route(NewCall("getAnalytics", u, <<>>))

NextSystem ==
  \/ PostAssignment
  \/ PutAssignment
  \/ DeleteAssignmentRoute
  \/ PutAssignmentStatus
  \/ PostSubmission
  \/ PutReview
  \/ GetSubmissionsRoute
  \/ GetMySubmissions
  \/ GetAnalyticsRoute
  \/ Tick
  \/ Return

SpecSystem == Init /\ [][NextSystem]_vars

(* ------------------------------ SpecConc ------------------------------ *)
\* bodies of the calls that run concurrently
ConcStatusInputs == {"Published", "Completed"}
ConcUpdateInputs == {[title |-> "t2", description |-> Undefined,
                      dueDate |-> [given |-> FALSE, date |-> NaN]]}
ConcAnswerInputs == {" a1 "}
\* the callers of the concurrent calls: the owner of the assignment, one student
ConcTeachers == {"T1"}
ConcStudents == {"S1"}

\* teacher T1 has created one assignment
InitConc ==
  /\ \E due \in DueDates : assignments = (1 :> NewAssignment("t1", "d1", due, "T1"))
  /\ nextId = 2
  /\ submissions = <<>>
  /\ now = 0
  /\ calls = [s \in Slots |-> Idle]

\* the call in slot s runs up to its next await
Run(s, c) ==
  LET st == Step(St(assignments, nextId, submissions, c), now)
  IN /\ Len(st.S) <= MaxSubmissions
     /\ assignments' = st.A
     /\ nextId' = st.N
     /\ submissions' = st.S
     /\ calls' = [calls EXCEPT ![s] = st.c]
     /\ UNCHANGED now

\* a request arrives and its handler runs up to its first await
Start(s, c0) ==
  /\ calls[s].pc = "idle"
  /\ Run(s, c0)

StartUpdateAssignmentStatus ==
  \E s \in Slots, u \in ConcTeachers, id \in 1..MaxAssignments, x \in ConcStatusInputs :
    Start(s, NewCall("updateAssignmentStatus", u, [status |-> x, id |-> id]))

StartUpdateAssignment ==
  \E s \in Slots, u \in ConcTeachers, id \in 1..MaxAssignments, b \in ConcUpdateInputs :
    Start(s, NewCall("updateAssignment", u,
                     [title |-> b.title,
                      description |-> b.description,
                      dueDate |-> b.dueDate,
                      id |-> id]))

StartDeleteAssignment ==
  \E s \in Slots, u \in ConcTeachers, id \in 1..MaxAssignments :
    Start(s, NewCall("deleteAssignment", u, [id |-> id]))

\* the createSubmission calls of other slots for the same pair, not yet returned
Rivals(s, u, id) ==
  {t \in Slots \ {s} : /\ calls[t].op = "createSubmission"
                       /\ calls[t].caller = u
                       /\ calls[t].req.assignmentId = id}

\* hist.fresh: no submission of the pair existed when the call arrived;
\* hist.rivals: how many other calls for the pair it has overlapped with
\* (0, 1, or 2 for two or more)
AtMostTwo(n) == IF n > 2 THEN 2 ELSE n

StartCreateSubmission ==
  \E s \in Slots, u \in ConcStudents, id \in 1..MaxAssignments, a \in ConcAnswerInputs :
    LET c0 == [NewCall("createSubmission", u, [assignmentId |-> id, answer |-> a])
                 EXCEPT !.hist = [fresh |-> findOne(submissions, id, u) = {},
                                  rivals |-> AtMostTwo(Cardinality(Rivals(s, u, id)))]]
        st == Step(St(assignments, nextId, submissions, c0), now)
    IN /\ calls[s].pc = "idle"
       /\ calls' = [t \in Slots |->
                      IF t = s THEN st.c
                      ELSE IF t \in Rivals(s, u, id)
                        THEN [calls[t] EXCEPT !.hist.rivals = AtMostTwo(@ + 1)]
                      ELSE calls[t]]
       /\ UNCHANGED <<assignments, nextId, submissions, now>>

\* the database operation a call awaits is carried out
SaveStatus ==
  \E s \in Slots : /\ calls[s].op = "updateAssignmentStatus" /\ calls[s].pc = "save"
                   /\ Run(s, calls[s])

SaveAssignment ==
  \E s \in Slots : /\ calls[s].op = "updateAssignment" /\ calls[s].pc = "save"
                   /\ Run(s, calls[s])

FindByIdAndDelete ==
  \E s \in Slots : /\ calls[s].op = "deleteAssignment" /\ calls[s].pc = "delete"
                   /\ Run(s, calls[s])

FindOneSubmission ==
  \E s \in Slots : /\ calls[s].op = "createSubmission" /\ calls[s].pc = "findOne"
                   /\ Run(s, calls[s])

InsertSubmission ==
  \E s \in Slots : /\ calls[s].op = "createSubmission" /\ calls[s].pc = "create"
                   /\ Run(s, calls[s])

NextConc ==
  \/ StartUpdateAssignmentStatus
  \/ StartUpdateAssignment
  \/ StartDeleteAssignment
  \/ StartCreateSubmission
  \/ SaveStatus
  \/ SaveAssignment
  \/ FindByIdAndDelete
  \/ FindOneSubmission
  \/ InsertSubmission
  \/ Tick
  \/ Return

SpecConc == InitConc /\ [][NextConc]_vars

(* ----------------------------- SpecReview ----------------------------- *)
\* grades of the reviews that run concurrently: absent, 0, 85, and 101
ConcGradeInputs == { [type |-> "undefined", val |-> 0], [type |-> "number", val |-> 0],
                     [type |-> "number", val |-> 85], [type |-> "number", val |-> 101] }

\* teacher T1 has created and published one assignment; the calls of this
\* specification all arrive at time 0, before it is due
InitReview ==
  /\ \E due \in DueDates :
       assignments = (1 :> [NewAssignment("t1", "d1", due, "T1") EXCEPT !.status = "Published"])
  /\ nextId = 2
  /\ submissions = <<>>
  /\ now = 0
  /\ calls = [s \in Slots |-> Idle]

\* a review arrives; its handler reads the submission, checks, and assigns
StartReviewSubmission ==
  \E s \in Slots, u \in ConcTeachers, id \in 1..MaxSubmissions, g \in ConcGradeInputs :
    Start(s, NewCall("reviewSubmission", u, [grade |-> g, feedback |-> Undefined, id |-> id]))

SaveReview ==
  \E s \in Slots : /\ calls[s].op = "reviewSubmission" /\ calls[s].pc = "save"
                   /\ Run(s, calls[s])

NextReview ==
  \/ StartCreateSubmission
  \/ FindOneSubmission
  \/ InsertSubmission
  \/ StartReviewSubmission
  \/ SaveReview
  \/ Return

SpecReview == InitReview /\ [][NextReview]_vars

(* ------------------------------ properties ---------------------------- *)
\* the call of slot 1 that this step has carried out, in the specifications
\* that run one call at a time
Finished(op) ==
  calls[1].pc = "idle" /\ calls'[1].pc = "done" /\ calls'[1].op = op

ForwardPairs == {<<"Draft", "Published">>, <<"Published", "Completed">>}

\* C1: with calls run one at a time, every change of a stored status is
\* Draft->Published or Published->Completed, and a status update by the
\* owner for any other pair of the three states fails with InvalidState and
\* changes nothing.
C1_StatusTransitions ==
  [][ /\ \A id \in (DOMAIN assignments) \cap (DOMAIN assignments') :
           assignments'[id].status # assignments[id].status
             => <<assignments[id].status, assignments'[id].status>> \in ForwardPairs
      /\ ( /\ Finished("updateAssignmentStatus")
           /\ calls'[1].req.id \in DOMAIN assignments
           /\ calls'[1].caller = assignments[calls'[1].req.id].createdBy
           /\ calls'[1].req.status \in StatusEnum
           /\ <<assignments[calls'[1].req.id].status, calls'[1].req.status>> \notin ForwardPairs )
         => (calls'[1].kind = "InvalidState" /\ assignments' = assignments)
    ]_vars

\* C1 witness: the owner asked for Published -> Draft and got InvalidState
C1_Witness ==
  /\ calls[1].pc = "done" /\ calls[1].op = "updateAssignmentStatus"
  /\ calls[1].kind = "InvalidState" /\ calls[1].req.status = "Draft"
  /\ calls[1].req.id \in DOMAIN assignments
  /\ assignments[calls[1].req.id].status = "Published"
  /\ assignments[calls[1].req.id].createdBy = calls[1].caller

\* C7: update and delete of an existing assignment succeed only for its
\* creator while it is Draft; another caller gets Forbidden in every status,
\* the creator gets InvalidState in Published and Completed, and a call that
\* fails in one of these two ways leaves the assignments as they were.
C7_UpdateDeleteGate ==
  [][ \A op \in {"updateAssignment", "deleteAssignment"} :
        ( Finished(op) /\ calls'[1].req.id \in DOMAIN assignments )
        => LET c == calls'[1]
               a == assignments[c.req.id]
           IN /\ c.kind = "OK" => (a.createdBy = c.caller /\ a.status = "Draft")
              /\ a.createdBy # c.caller => c.kind = "Forbidden"
              /\ (a.createdBy = c.caller /\ a.status # "Draft") => c.kind = "InvalidState"
              /\ c.kind \in {"Forbidden", "InvalidState"} => assignments' = assignments
    ]_vars

\* C7 witness: the creator's delete of a Published assignment was refused
C7_Witness ==
  /\ calls[1].pc = "done" /\ calls[1].op = "deleteAssignment"
  /\ calls[1].kind = "InvalidState"
  /\ calls[1].req.id \in DOMAIN assignments
  /\ assignments[calls[1].req.id].status = "Published"
  /\ assignments[calls[1].req.id].createdBy = calls[1].caller

\* C9: with calls run one at a time, an assignment that is Completed is
\* never removed and none of its fields ever changes.
C9_CompletedFinal ==
  [][ \A id \in DOMAIN assignments :
        assignments[id].status = "Completed"
          => (id \in DOMAIN assignments' /\ assignments'[id] = assignments[id])
    ]_vars

\* C9 witness: the owner's update of a Completed assignment has been handled
C9_Witness ==
  /\ calls[1].pc = "done" /\ calls[1].op = "updateAssignment"
  /\ calls[1].req.id \in DOMAIN assignments
  /\ assignments[calls[1].req.id].status = "Completed"
  /\ assignments[calls[1].req.id].createdBy = calls[1].caller
  /\ calls[1].req.title \in Titles /\ calls[1].req.title # assignments[calls[1].req.id].title

\* the eligibility part of C5, for a call with both fields present on an
\* existing assignment that this step has handled
C5_Refusals ==
  LET c == calls'[1]
      a == assignments[c.req.assignmentId]
  IN /\ a.status \in {"Draft", "Completed"} => c.kind = "InvalidState"
     /\ (a.status = "Published" /\ now > a.dueDate) => c.kind = "InvalidState"

\* the success part of C5: the call stored a fresh, unreviewed submission
C5_Stored ==
  LET c == calls'[1]
  IN /\ c.kind = "OK"
     /\ Len(submissions') = Len(submissions) + 1
     /\ LET d == submissions'[Len(submissions')]
        IN /\ d.assignmentId = c.req.assignmentId /\ d.studentId = c.caller
           /\ d.reviewed = FALSE /\ d.grade = {} /\ d.feedback = {}

C5_Eligible ==
  LET c == calls'[1]
      a == assignments[c.req.assignmentId]
  IN /\ a.status = "Published" /\ now < a.dueDate
     /\ findOne(submissions, c.req.assignmentId, c.caller) = {}

\* C5 as stated: a submission with assignmentId and answer present, for an
\* existing assignment, fails with InvalidState in Draft and Completed and
\* after the due date, and succeeds in Published before the due date when
\* the student has not submitted yet.
C5_AsStated ==
  [][ ( /\ Finished("createSubmission")
        /\ calls'[1].req.assignmentId \in DOMAIN assignments
        /\ Truthy(calls'[1].req.answer) )
      => (C5_Refusals /\ (C5_Eligible => C5_Stored))
    ]_vars

\* C5 amended: the same, the success being promised only for an answer that
\* has a character other than white space.
C5_SubmissionGate ==
  [][ ( /\ Finished("createSubmission")
        /\ calls'[1].req.assignmentId \in DOMAIN assignments
        /\ Truthy(calls'[1].req.answer) )
      => (C5_Refusals /\ ((C5_Eligible /\ Truthy(trim(calls'[1].req.answer))) => C5_Stored))
    ]_vars

\* C5 witness: a submission to a Published assignment before its due date
\* has been stored
C5_Witness ==
  /\ calls[1].pc = "done" /\ calls[1].op = "createSubmission" /\ calls[1].kind = "OK"
  /\ \E i \in 1..Len(submissions) :
       /\ submissions[i].assignmentId = calls[1].req.assignmentId
       /\ submissions[i].studentId = calls[1].caller
       /\ ~submissions[i].reviewed /\ submissions[i].grade = {}
       /\ assignments[submissions[i].assignmentId].status = "Published"
       /\ now < assignments[submissions[i].assignmentId].dueDate

\* C10: every successful review leaves the submission reviewed, and one that
\* supplies neither grade nor feedback leaves the stored grade and feedback
\* as they were.
C10_ReviewSetsReviewed ==
  [][ ( Finished("reviewSubmission") /\ calls'[1].kind = "OK" )
      => LET c == calls'[1]
             id == c.req.id
         IN /\ id \in 1..Len(submissions')
            /\ submissions'[id].reviewed = TRUE
            /\ (c.req.grade.type = "undefined" /\ c.req.feedback = Undefined)
                 => /\ submissions'[id].grade = submissions[id].grade
                    /\ submissions'[id].feedback = submissions[id].feedback
    ]_vars

\* C10 witness: a review with neither grade nor feedback has succeeded
C10_Witness ==
  /\ calls[1].pc = "done" /\ calls[1].op = "reviewSubmission" /\ calls[1].kind = "OK"
  /\ calls[1].req.grade.type = "undefined" /\ calls[1].req.feedback = Undefined
  /\ submissions[calls[1].req.id].reviewed
  /\ submissions[calls[1].req.id].grade = {}
  /\ submissions[calls[1].req.id].feedback = {}

StatusRank(x) == CASE x = "Draft" -> 0 [] x = "Published" -> 1 [] OTHER -> 2

\* C2: when status updates of one assignment interleave, its stored status
\* never moves backwards.
C2_StatusNeverBackwards ==
  [][ \A id \in (DOMAIN assignments) \cap (DOMAIN assignments') :
        StatusRank(assignments'[id].status) >= StatusRank(assignments[id].status)
    ]_vars

\* C3: there is at most one submission for each (assignmentId, studentId).
C3_OnePerPair ==
  \A i, j \in 1..Len(submissions) :
    (submissions[i].assignmentId = submissions[j].assignmentId
     /\ submissions[i].studentId = submissions[j].studentId) => i = j

\* C3 witness: a call that had passed the existence check was refused by the
\* index at its insert
C3_Witness ==
  \E s \in Slots :
    /\ calls[s].pc = "done" /\ calls[s].op = "createSubmission"
    /\ calls[s].site = "create" /\ calls[s].kind = "Conflict"
    /\ Cardinality(findOne(submissions, calls[s].req.assignmentId, calls[s].caller)) = 1

\* two finished submission calls of one pair that arrived before any
\* submission of the pair existed, overlapped with each other and with no
\* third call for the pair, and both passed the status and due date checks
RacingPair(s, t) ==
  /\ s # t
  /\ calls[s].pc = "done" /\ calls[t].pc = "done"
  /\ calls[s].op = "createSubmission" /\ calls[t].op = "createSubmission"
  /\ calls[s].caller = calls[t].caller
  /\ calls[s].req.assignmentId = calls[t].req.assignmentId
  /\ calls[s].hist.fresh /\ calls[t].hist.fresh
  /\ calls[s].hist.rivals = 1 /\ calls[t].hist.rivals = 1
  /\ calls[s].site \in {"findOne", "create"} /\ calls[t].site \in {"findOne", "create"}

\* C4: two concurrent submissions of the same pair to an eligible assignment
\* end as one success and one Conflict, whatever the interleaving.
C4_OneSuccessOneConflict ==
  \A s, t \in Slots :
    RacingPair(s, t) => {calls[s].kind, calls[t].kind} = {"OK", "Conflict"}

\* C4 witness: both calls passed the existence check and the index refused
\* the second insert
C4_Witness ==
  \E s, t \in Slots :
    /\ RacingPair(s, t)
    /\ calls[s].kind = "OK"
    /\ calls[t].kind = "Conflict" /\ calls[t].site = "create"

\* C6: no submission is inserted while the stored status of its assignment
\* is not Published.
C6_InsertOnlyWhilePublished ==
  [][ Len(submissions') > Len(submissions)
      => LET d == submissions'[Len(submissions')]
         IN d.assignmentId \in DOMAIN assignments
              => assignments[d.assignmentId].status = "Published"
    ]_vars

\* C8: title, description and dueDate of an assignment do not change while
\* its stored status is Published or Completed.
C8_FieldsFrozenAfterDraft ==
  [][ \A id \in (DOMAIN assignments) \cap (DOMAIN assignments') :
        assignments[id].status \in {"Published", "Completed"}
          => /\ assignments'[id].title = assignments[id].title
             /\ assignments'[id].description = assignments[id].description
             /\ assignments'[id].dueDate = assignments[id].dueDate
    ]_vars


\* the grade of review request r is given and is not a number within 0..100
InvalidGrade(r) ==
  /\ r.grade.type # "undefined"
  /\ (r.grade.type # "number" \/ r.grade.val < 0 \/ r.grade.val > 100)

\* the teacher who created the assignment of stored submission i
OwnerOf(i) == assignments[submissions[i].assignmentId].createdBy

\* C11: a review by the owning teacher whose grade is given and is not a
\* number within 0..100 ends with ValidationError and leaves the stored
\* submissions as they were, whether or not a feedback comes with it.
C11_InvalidGradeRefused ==
  [][ ( /\ Finished("reviewSubmission")
        /\ calls'[1].req.id \in 1..Len(submissions)
        /\ submissions[calls'[1].req.id].assignmentId \in DOMAIN assignments
        /\ OwnerOf(calls'[1].req.id) = calls'[1].caller
        /\ InvalidGrade(calls'[1].req) )
      => /\ calls'[1].kind = "ValidationError"
         /\ submissions' = submissions
    ]_vars

\* C11 witness: the owner's review with grade 101 and a feedback was refused
\* and the submission is still unreviewed, without grade and feedback
C11_Witness ==
  /\ calls[1].pc = "done" /\ calls[1].op = "reviewSubmission"
  /\ calls[1].kind = "ValidationError"
  /\ calls[1].req.grade = [type |-> "number", val |-> 101]
  /\ calls[1].req.feedback # Undefined
  /\ calls[1].req.id \in 1..Len(submissions)
  /\ OwnerOf(calls[1].req.id) = calls[1].caller
  /\ LET doc == submissions[calls[1].req.id]
     IN ~doc.reviewed /\ doc.grade = {} /\ doc.feedback = {}

\* C12: a review by a teacher who did not create the submission's assignment
\* ends with Forbidden and changes nothing, and a stored submission changes
\* only in a successful review of it by the teacher who created its assignment.
C12_OnlyOwnerReviews ==
  [][ /\ ( /\ Finished("reviewSubmission")
           /\ calls'[1].req.id \in 1..Len(submissions)
           /\ submissions[calls'[1].req.id].assignmentId \in DOMAIN assignments
           /\ OwnerOf(calls'[1].req.id) # calls'[1].caller )
         => /\ calls'[1].kind = "Forbidden"
            /\ submissions' = submissions
      /\ \A i \in 1..Len(submissions) :
           ( i > Len(submissions') \/ submissions'[i] # submissions[i] )
           => /\ Finished("reviewSubmission")
              /\ calls'[1].kind = "OK"
              /\ calls'[1].req.id = i
              /\ submissions[i].assignmentId \in DOMAIN assignments
              /\ calls'[1].caller = OwnerOf(i)
    ]_vars

\* C12 witness: a teacher who is not the owner sent a valid grade and was
\* refused, and the submission is still unreviewed
C12_Witness ==
  /\ calls[1].pc = "done" /\ calls[1].op = "reviewSubmission"
  /\ calls[1].kind = "Forbidden"
  /\ calls[1].req.grade = [type |-> "number", val |-> 85]
  /\ calls[1].req.id \in 1..Len(submissions)
  /\ OwnerOf(calls[1].req.id) # calls[1].caller
  /\ ~submissions[calls[1].req.id].reviewed
  /\ submissions[calls[1].req.id].grade = {}


\* the answer of getAssignments to the call c0 in the current state
ListAnswer(c0) == getAssignments(St(assignments, nextId, submissions, c0)).c

\* the ids at positions 1..Len(q) of sequence q, as a set
Range(q) == { q[i] : i \in 1..Len(q) }

\* C16: whatever status parameter a student's List carries, every assignment
\* returned is Published, and the total counted is that of the Published
\* assignments.
C16_StudentSeesPublishedOnly ==
  [][ ( /\ Finished("getAssignments")
        /\ role(calls'[1].caller) = "student"
        /\ calls'[1].kind = "OK" )
      => /\ \A id \in Range(calls'[1].data.data) :
              id \in DOMAIN assignments /\ assignments[id].status = "Published"
         /\ calls'[1].data.pagination.totalAssignments
              = Cardinality({ id \in DOMAIN assignments : assignments[id].status = "Published" })
    ]_vars

\* C16 witness: a student asked for status Draft while a Draft assignment was
\* stored, and was given a Published one
C16_Witness ==
  /\ calls[1].pc = "done" /\ calls[1].op = "getAssignments" /\ calls[1].kind = "OK"
  /\ role(calls[1].caller) = "student"
  /\ calls[1].req.status = "Draft"
  /\ \E id \in DOMAIN assignments : assignments[id].status = "Draft"
  /\ Len(calls[1].data.data) > 0

\* C17: a teacher's List returns only assignments the caller created; a
\* status parameter that is Draft, Published or Completed restricts the result
\* to that status; any other value gives the very answer of the same request
\* without the parameter.
C17_TeacherSeesOwnOnly ==
  [][ ( Finished("getAssignments") /\ role(calls'[1].caller) = "teacher" )
      => LET c == calls'[1]
             own == { id \in DOMAIN assignments : assignments[id].createdBy = c.caller }
             plain == ListAnswer(NewCall("getAssignments", c.caller,
                                         [c.req EXCEPT !.status = Undefined]))
         IN /\ c.kind = "OK" => Range(c.data.data) \subseteq own
            /\ (c.kind = "OK" /\ c.req.status \in StatusEnum)
                 => /\ \A id \in Range(c.data.data) : assignments[id].status = c.req.status
                    /\ c.data.pagination.totalAssignments
                         = Cardinality({ id \in own : assignments[id].status = c.req.status })
            /\ c.req.status \notin StatusEnum
                 => c.kind = plain.kind /\ c.data = plain.data
    ]_vars

\* C17 witness: a teacher asked for a status that does not exist while
\* another teacher had an assignment, and was given the own assignments
C17_Witness ==
  /\ calls[1].pc = "done" /\ calls[1].op = "getAssignments" /\ calls[1].kind = "OK"
  /\ role(calls[1].caller) = "teacher"
  /\ calls[1].req.status = "Archived"
  /\ \E id \in DOMAIN assignments : assignments[id].createdBy # calls[1].caller
  /\ Len(calls[1].data.data) > 0

\* C18: Get of an absent id ends with NotFound for every caller; Get of a
\* stored assignment returns it to a student when it is Published and to a
\* teacher when the teacher created it, and ends with Forbidden otherwise.
C18_GetVisibility ==
  [][ Finished("getAssignment")
      => LET c == calls'[1]
             id == c.req.id
         IN IF id \notin DOMAIN assignments THEN c.kind = "NotFound"
            ELSE IF \/ role(c.caller) = "student" /\ assignments[id].status = "Published"
                    \/ role(c.caller) = "teacher" /\ assignments[id].createdBy = c.caller
              THEN c.kind = "OK" /\ c.data = [id |-> id] @@ assignments[id]
            ELSE c.kind = "Forbidden" /\ c.data = <<>>
    ]_vars

\* C18 witness: a student was refused an assignment that is Completed
C18_Witness ==
  /\ calls[1].pc = "done" /\ calls[1].op = "getAssignment" /\ calls[1].kind = "Forbidden"
  /\ role(calls[1].caller) = "student"
  /\ calls[1].req.id \in DOMAIN assignments
  /\ assignments[calls[1].req.id].status = "Completed"

\* the number a page or limit parameter q stands for: its value when it is
\* a positive number, the default d otherwise
PositiveOr(q, d) == IF q.type = "int" /\ q.val > 0 THEN q.val ELSE d

\* the answer that C20 promises to the List call that has just ended
C20_Promised ==
  LET c == calls'[1]
      p == PositiveOr(c.req.page, DefaultPage)
      l == PositiveOr(c.req.limit, DefaultLimit)
      all == NewestFirst(Matching(assignments, ListFilter(c.caller, c.req.status)))
      T == Len(all)
      last == IF p * l < T THEN p * l ELSE T
  IN /\ c.kind = "OK"
     /\ c.data.pagination = [currentPage |-> p,
                             totalPages |-> Ceil(T, l),
                             totalAssignments |-> T,
                             hasNext |-> p < Ceil(T, l),
                             hasPrev |-> p > 1]
     /\ Len(c.data.data) <= l
     /\ c.data.data = SubSeq(all, (p - 1) * l + 1, last)

\* C20: every List is answered; with T matching assignments, page p (1 when
\* the parameter is absent or not a positive number) and limit l (10 likewise),
\* the metadata is currentPage = p, totalPages = ceil(T/l), totalAssignments
\* = T, hasNext = (p < totalPages), hasPrev = (p > 1), and the page holds
\* items (p-1)*l+1 .. min(p*l, T) of the matching assignments, newest first.
C20_Pagination ==
  [][ Finished("getAssignments") => C20_Promised ]_vars


\* the indices of the stored submissions made to assignment id
SubmissionsOf(id) == { i \in 1..Len(submissions) : submissions[i].assignmentId = id }

\* the ids of the assignments that teacher u created
OwnedBy(u) == { id \in DOMAIN assignments : assignments[id].createdBy = u }

\* the sum of field f over the rows of sequence q
RECURSIVE SumRows(_, _)
SumRows(q, f) == IF q = <<>> THEN 0 ELSE Head(q)[f] + SumRows(Tail(q), f)

\* C13: the report of a teacher has exactly one row for each assignment the
\* teacher created; a row counts the submissions of its assignment, the
\* reviewed ones among them and their difference, which is not negative; the
\* row of an assignment without submissions is 0, 0, 0 and null; the overview
\* counts the rows and sums them up.
C13_ReportRows ==
  [][ Finished("getAnalytics")
      => LET c == calls'[1]
             rows == c.data.assignmentAnalytics
             ov == c.data.overview
         IN /\ c.kind = "OK"
            /\ Len(rows) = Cardinality(OwnedBy(c.caller))
            /\ { rows[k].assignmentId : k \in 1..Len(rows) } = OwnedBy(c.caller)
            /\ \A k \in 1..Len(rows) :
                 LET of == SubmissionsOf(rows[k].assignmentId)
                 IN /\ rows[k].totalSubmissions = Cardinality(of)
                    /\ rows[k].reviewedSubmissions
                         = Cardinality({ i \in of : submissions[i].reviewed })
                    /\ rows[k].pendingReviews
                         = rows[k].totalSubmissions - rows[k].reviewedSubmissions
                    /\ rows[k].pendingReviews >= 0
                    /\ of = {} => /\ rows[k].totalSubmissions = 0
                                  /\ rows[k].reviewedSubmissions = 0
                                  /\ rows[k].pendingReviews = 0
                                  /\ rows[k].averageGrade = {}
            /\ ov.totalAssignments = Len(rows)
            /\ ov.totalSubmissions = SumRows(rows, "totalSubmissions")
            /\ ov.totalReviewed = SumRows(rows, "reviewedSubmissions")
            /\ ov.pendingReviews = ov.totalSubmissions - ov.totalReviewed
    ]_vars

\* C13 witness: the report of a teacher with one assignment that has no
\* submission and one that has two, one of them reviewed
C13_Witness ==
  /\ calls[1].pc = "done" /\ calls[1].op = "getAnalytics" /\ calls[1].kind = "OK"
  /\ Len(calls[1].data.assignmentAnalytics) = 2
  /\ \E id \in OwnedBy(calls[1].caller) : SubmissionsOf(id) = {}
  /\ \E id \in OwnedBy(calls[1].caller) :
       /\ Cardinality(SubmissionsOf(id)) = 2
       /\ \E i, j \in SubmissionsOf(id) : submissions[i].reviewed /\ ~submissions[j].reviewed
  /\ calls[1].data.overview.pendingReviews = 1

\* C14: in every row of a report averageGrade is null exactly when no
\* submission of the assignment has a grade, and is otherwise the mean of the
\* grades of the graded submissions, 0 when they are all 0.
C14_AverageOfGraded ==
  [][ Finished("getAnalytics")
      => LET rows == calls'[1].data.assignmentAnalytics
         IN \A k \in 1..Len(rows) :
              LET graded == { i \in SubmissionsOf(rows[k].assignmentId) :
                                submissions[i].grade # {} }
              IN /\ rows[k].averageGrade = {} <=> graded = {}
                 /\ \A h \in rows[k].averageGrade :
                      h * Cardinality(graded) = 100 * SumGrades(submissions, graded)
    ]_vars

\* the stores as far as teacher u can tell them apart: the assignments u
\* created and the submissions made to them
OwnAssignments(u) == [id \in OwnedBy(u) |-> assignments[id]]
OwnSubmissions(u) ==
  LET Own(sub) == sub.assignmentId \in OwnedBy(u)
  IN SelectSeq(submissions, Own)

\* C15: the report of a teacher is the report the teacher gets from the
\* stores without the other teachers' assignments and the submissions to
\* them, so two states that agree on the teacher's own part give one report.
C15_ReportOwnPartOnly ==
  [][ Finished("getAnalytics")
      => LET c == calls'[1]
             alone == getAnalytics(St(OwnAssignments(c.caller), nextId,
                                      OwnSubmissions(c.caller),
                                      NewCall("getAnalytics", c.caller, c.req))).c
         IN c.kind = alone.kind /\ c.data = alone.data
    ]_vars

\* C15 witness: a report for a teacher with a submitted assignment, made
\* while another teacher had an assignment with a graded submission
C15_Witness ==
  /\ calls[1].pc = "done" /\ calls[1].op = "getAnalytics" /\ calls[1].kind = "OK"
  /\ \E id \in OwnedBy(calls[1].caller) : SubmissionsOf(id) # {}
  /\ \E id \in DOMAIN assignments :
       /\ assignments[id].createdBy # calls[1].caller
       /\ \E i \in SubmissionsOf(id) : submissions[i].grade # {}
  /\ calls[1].data.overview.totalAssignments = 1

\* C19: the submissions of an absent assignment are refused with NotFound,
\* those of an assignment the caller did not create with Forbidden; otherwise
\* the answer holds each stored submission of that assignment once, as it is
\* stored, and nothing else.
C19_SubmissionsOfOwnAssignment ==
  [][ Finished("getSubmissionsByAssignment")
      => LET c == calls'[1]
             id == c.req.assignmentId
         IN IF id \notin DOMAIN assignments THEN c.kind = "NotFound"
            ELSE IF assignments[id].createdBy # c.caller THEN c.kind = "Forbidden"
            ELSE /\ c.kind = "OK"
                 /\ { c.data[k].id : k \in 1..Len(c.data) } = SubmissionsOf(id)
                 /\ Len(c.data) = Cardinality(SubmissionsOf(id))
                 /\ \A k \in 1..Len(c.data) :
                      c.data[k] = [id |-> c.data[k].id] @@ submissions[c.data[k].id]
    ]_vars

\* C19 witness: a teacher was given the one submission of an own assignment
\* while another teacher's assignment had a submission too
C19_Witness ==
  /\ calls[1].pc = "done" /\ calls[1].op = "getSubmissionsByAssignment"
  /\ calls[1].kind = "OK"
  /\ Len(calls[1].data) = 1
  /\ \E id \in DOMAIN assignments :
       assignments[id].createdBy # calls[1].caller /\ SubmissionsOf(id) # {}


\* the body r of an assignment Create has title, description and a dueDate
\* that parses to a date
CompleteBody(r) ==
  Truthy(r.title) /\ Truthy(r.description) /\ r.dueDate.given /\ r.dueDate.date # NaN

\* C21: a Create whose body has title, description and a parsable dueDate
\* stores one new assignment with these values, status Draft and createdBy the
\* caller, and leaves the others alone; a Create with one of them missing or
\* with an unparsable dueDate ends with ValidationError and stores nothing.
C21_CreateAssignment ==
  [][ Finished("createAssignment")
      => LET c == calls'[1]
             r == c.req
         IN IF CompleteBody(r)
              THEN /\ c.kind = "OK"
                   /\ DOMAIN assignments' = DOMAIN assignments \cup {nextId}
                   /\ nextId \notin DOMAIN assignments
                   /\ assignments'[nextId] = [title |-> r.title,
                                              description |-> r.description,
                                              dueDate |-> r.dueDate.date,
                                              createdBy |-> c.caller,
                                              status |-> "Draft"]
                   /\ \A id \in DOMAIN assignments : assignments'[id] = assignments[id]
            ELSE c.kind = "ValidationError" /\ assignments' = assignments
    ]_vars

\* C21 witness: a Create with an unparsable dueDate was refused and nothing
\* is stored
C21_Witness ==
  /\ calls[1].pc = "done" /\ calls[1].op = "createAssignment"
  /\ calls[1].kind = "ValidationError"
  /\ Truthy(calls[1].req.title) /\ Truthy(calls[1].req.description)
  /\ calls[1].req.dueDate.given /\ calls[1].req.dueDate.date = NaN
  /\ DOMAIN assignments = {}

\* C22: a successful Update sets title, description and dueDate to the
\* values the body has and keeps the stored value of each one the body omits;
\* status and createdBy of the assignment, the set of stored ids and every
\* other assignment stay as they were.
C22_UpdateFrame ==
  [][ ( Finished("updateAssignment") /\ calls'[1].kind = "OK" )
      => LET r == calls'[1].req
             old == assignments[r.id]
             new == assignments'[r.id]
         IN /\ DOMAIN assignments' = DOMAIN assignments
            /\ r.id \in DOMAIN assignments
            /\ new.title = IF Truthy(r.title) THEN r.title ELSE old.title
            /\ new.description = IF Truthy(r.description) THEN r.description
                                 ELSE old.description
            /\ new.dueDate = IF r.dueDate.given THEN r.dueDate.date ELSE old.dueDate
            /\ new.status = old.status
            /\ new.createdBy = old.createdBy
            /\ \A id \in DOMAIN assignments \ {r.id} : assignments'[id] = assignments[id]
    ]_vars

\* C22 witness: an Update that had a new description only went through and
\* the title is still the one of the Create
C22_Witness ==
  /\ calls[1].pc = "done" /\ calls[1].op = "updateAssignment" /\ calls[1].kind = "OK"
  /\ calls[1].req.title = Undefined /\ ~calls[1].req.dueDate.given
  /\ calls[1].req.description = "d2"
  /\ assignments[calls[1].req.id].description = "d2"
  /\ assignments[calls[1].req.id].title = "t1"


\* C23: a stored submission that is reviewed is still stored and reviewed
\* after every step, whatever call the step is.
C23_ReviewedStays ==
  [][ \A i \in 1..Len(submissions) :
        submissions[i].reviewed
        => i <= Len(submissions') /\ submissions'[i].reviewed
    ]_vars

\* C23 witness: a submission graded by an earlier review has been reviewed
\* again without a grade and is still reviewed
C23_Witness ==
  /\ calls[1].pc = "done" /\ calls[1].op = "reviewSubmission" /\ calls[1].kind = "OK"
  /\ calls[1].req.grade.type = "undefined"
  /\ submissions[calls[1].req.id].grade = {85}
  /\ submissions[calls[1].req.id].reviewed

\* C26: for a body with both fields and a Published assignment, Create is
\* refused for the due date exactly when the time is greater than dueDate; at
\* a time equal to dueDate a first submission with a proper answer is stored.
C26_DueDateStrict ==
  [][ ( /\ Finished("createSubmission")
        /\ calls'[1].req.assignmentId \in DOMAIN assignments
        /\ Truthy(calls'[1].req.answer)
        /\ assignments[calls'[1].req.assignmentId].status = "Published" )
      => LET c == calls'[1]
             due == assignments[c.req.assignmentId].dueDate
         IN /\ c.kind = "InvalidState" <=> now > due
            /\ ( /\ now = due
                 /\ Truthy(trim(c.req.answer))
                 /\ findOne(submissions, c.req.assignmentId, c.caller) = {} )
                 => /\ c.kind = "OK"
                    /\ Len(submissions') = Len(submissions) + 1
    ]_vars

\* C26 witness: a submission was stored at the very time of the due date
C26_Witness ==
  /\ calls[1].pc = "done" /\ calls[1].op = "createSubmission" /\ calls[1].kind = "OK"
  /\ calls[1].req.assignmentId \in DOMAIN assignments
  /\ now = assignments[calls[1].req.assignmentId].dueDate
  /\ findOne(submissions, calls[1].req.assignmentId, calls[1].caller) # {}

\* the kind of the first check of submission Create that call c fails in the
\* current state, in the order of C27; "none" when it passes them all
FirstFailing(c) ==
  LET id == c.req.assignmentId
  IN IF id = NoId \/ ~Truthy(c.req.answer) THEN "ValidationError"
     ELSE IF id \notin DOMAIN assignments THEN "NotFound"
     ELSE IF assignments[id].status # "Published" THEN "InvalidState"
     ELSE IF now > assignments[id].dueDate THEN "InvalidState"
     ELSE IF findOne(submissions, id, c.caller) # {} THEN "Conflict"
     ELSE "none"

\* C27: a submission Create that fails one of the checks missing field,
\* absent assignment, status not Published, due date passed, submission
\* exists, ends with the kind of the first of them that fails, in this order.
C27_FirstFailingCheck ==
  [][ ( Finished("createSubmission") /\ FirstFailing(calls'[1]) # "none" )
      => /\ calls'[1].kind = FirstFailing(calls'[1])
         /\ submissions' = submissions
    ]_vars

\* C27 witness: a student who has a submission for an assignment that is
\* now Completed called Create again and got InvalidState
C27_Witness ==
  /\ calls[1].pc = "done" /\ calls[1].op = "createSubmission"
  /\ calls[1].kind = "InvalidState"
  /\ calls[1].req.assignmentId \in DOMAIN assignments
  /\ assignments[calls[1].req.assignmentId].status = "Completed"
  /\ findOne(submissions, calls[1].req.assignmentId, calls[1].caller) # {}


\* C24: the report of a teacher has, for an own assignment with exactly one
\* submission, reviewed with grade 85, a row with totalSubmissions 1,
\* reviewedSubmissions 1, pendingReviews 0 and averageGrade 85 (8500
\* hundredths); the witness shows the trace that leads there.
C24_TraceReport ==
  [][ Finished("getAnalytics")
      => LET c == calls'[1]
         IN \A id \in OwnedBy(c.caller) :
              ( /\ Cardinality(SubmissionsOf(id)) = 1
                /\ \A i \in SubmissionsOf(id) :
                     submissions[i].reviewed /\ submissions[i].grade = {85} )
              => /\ c.kind = "OK"
                 /\ \E k \in 1..Len(c.data.assignmentAnalytics) :
                      LET row == c.data.assignmentAnalytics[k]
                      IN /\ row.assignmentId = id
                         /\ row.totalSubmissions = 1
                         /\ row.reviewedSubmissions = 1
                         /\ row.pendingReviews = 0
                         /\ row.averageGrade = {8500}
    ]_vars

\* C24 witness: from the empty stores a teacher has created an assignment
\* with a future dueDate and published it, a student has submitted, the
\* teacher has reviewed with grade 85 and has got the report with that row
C24_Witness ==
  /\ calls[1].pc = "done" /\ calls[1].op = "getAnalytics" /\ calls[1].kind = "OK"
  /\ 1 \in DOMAIN assignments
  /\ assignments[1].createdBy = calls[1].caller
  /\ assignments[1].status = "Published"
  /\ now < assignments[1].dueDate
  /\ Len(submissions) = 1
  /\ submissions[1].assignmentId = 1
  /\ role(submissions[1].studentId) = "student"
  /\ submissions[1].reviewed /\ submissions[1].grade = {85}
  /\ calls[1].data.assignmentAnalytics[1].totalSubmissions = 1
  /\ calls[1].data.assignmentAnalytics[1].reviewedSubmissions = 1
  /\ calls[1].data.assignmentAnalytics[1].pendingReviews = 0
  /\ calls[1].data.assignmentAnalytics[1].averageGrade = {8500}

\* the routes that C25 reserves to teachers and to students
TeacherRoutes ==
  {"createAssignment", "updateAssignment", "deleteAssignment", "updateAssignmentStatus",
   "getSubmissionsByAssignment", "reviewSubmission", "getAnalytics"}
StudentRoutes == {"createSubmission", "getMySubmissions"}

\* C25: a call of a teacher route by a caller who is no teacher, or of a
\* student route by a caller who is no student, is turned away at the route
\* and changes nothing; every stored assignment was created by a teacher and
\* every stored submission was made by a student.
C25_RoleGating ==
  [][ /\ ( /\ calls[1].pc = "idle" /\ calls'[1].pc = "done"
           /\ \/ calls'[1].op \in TeacherRoutes /\ role(calls'[1].caller) # "teacher"
              \/ calls'[1].op \in StudentRoutes /\ role(calls'[1].caller) # "student" )
         => /\ calls'[1].kind = "Forbidden" /\ calls'[1].site = "route"
            /\ calls'[1].data = <<>>
            /\ UNCHANGED <<assignments, nextId, submissions>>
      /\ \A id \in DOMAIN assignments' : role(assignments'[id].createdBy) = "teacher"
      /\ \A i \in 1..Len(submissions') : role(submissions'[i].studentId) = "student"
    ]_vars

\* C25 witness: a teacher asked to submit an answer to a Published
\* assignment and was turned away, and a student's submission is stored
C25_Witness ==
  /\ calls[1].pc = "done" /\ calls[1].op = "createSubmission"
  /\ role(calls[1].caller) = "teacher"
  /\ calls[1].kind = "Forbidden" /\ calls[1].site = "route"
  /\ calls[1].req.assignmentId \in DOMAIN assignments
  /\ assignments[calls[1].req.assignmentId].status = "Published"
  /\ Truthy(trim(calls[1].req.answer))
  /\ Len(submissions) = 1

\* C28: the assignment of every stored submission is stored.
C28_SubmissionsHaveAssignment ==
  \A i \in 1..Len(submissions) : submissions[i].assignmentId \in DOMAIN assignments

\* the calls that write and the result kinds of the specification
WritingOps ==
  {"createAssignment", "updateAssignment", "deleteAssignment", "updateAssignmentStatus",
   "createSubmission", "reviewSubmission"}
ErrorKinds == {"ValidationError", "NotFound", "Forbidden", "InvalidState", "Conflict"}

\* C29: every call of assignment Create, Update, Delete, SetStatus and of
\* submission Create, Review ends with success or with one of the five error
\* kinds, and one that ends with an error leaves the stored assignments and
\* submissions as they were.
C29_ErrorsChangeNothing ==
  [][ ( /\ calls[1].pc = "idle" /\ calls'[1].pc = "done"
        /\ calls'[1].op \in WritingOps )
      => /\ calls'[1].kind \in ErrorKinds \cup {"OK"}
         /\ calls'[1].kind \in ErrorKinds
              => assignments' = assignments /\ submissions' = submissions
    ]_vars

\* C29 witness: the owner's Update of a Draft assignment with an unparsable
\* dueDate was refused and the assignment is as it was created
C29_Witness ==
  /\ calls[1].pc = "done" /\ calls[1].op = "updateAssignment"
  /\ calls[1].kind = "ValidationError"
  /\ calls[1].req.dueDate.given /\ calls[1].req.dueDate.date = NaN
  /\ calls[1].req.id \in DOMAIN assignments
  /\ assignments[calls[1].req.id] = NewAssignment("t1", "d1", 1, calls[1].caller)

\* C30: every stored submission stays stored with its assignmentId,
\* studentId and answer; it changes only in a Review, and then in grade,
\* feedback and reviewed at most; no assignment call changes the submissions.
C30_SubmissionFrame ==
  [][ /\ Len(submissions') >= Len(submissions)
      /\ \A i \in 1..Len(submissions) :
           /\ submissions'[i].assignmentId = submissions[i].assignmentId
           /\ submissions'[i].studentId = submissions[i].studentId
           /\ submissions'[i].answer = submissions[i].answer
           /\ submissions'[i] # submissions[i]
                => Finished("reviewSubmission") /\ calls'[1].req.id = i
      /\ ( /\ calls[1].pc = "idle" /\ calls'[1].pc = "done"
           /\ calls'[1].op \in {"createAssignment", "updateAssignment", "deleteAssignment",
                                 "updateAssignmentStatus"} )
         => submissions' = submissions
    ]_vars

\* C30 witness: the assignment of a reviewed submission has been set to
\* Completed and the submission still has the answer the student gave
C30_Witness ==
  /\ calls[1].pc = "done" /\ calls[1].op = "updateAssignmentStatus" /\ calls[1].kind = "OK"
  /\ assignments[calls[1].req.id].status = "Completed"
  /\ \E i \in SubmissionsOf(calls[1].req.id) :
       /\ submissions[i].reviewed /\ submissions[i].grade = {85}
       /\ submissions[i].answer = "a1"

\* the review of slot s that this step has completed with success
Reviewed(s) ==
  /\ calls[s].pc # "done" /\ calls'[s].pc = "done"
  /\ calls'[s].op = "reviewSubmission" /\ calls'[s].kind = "OK"

\* C31: every stored grade is unset or a number from 0 to 100; a submission
\* is stored without a grade and gets or changes one only in a successful
\* Review that carries a grade; such a Review leaves the submission with a
\* grade, and a grade that is set never becomes unset again. Reviews of the
\* same submission may overlap.
C31_GradeRange ==
  [][ /\ \A i \in 1..Len(submissions') :
           \/ submissions'[i].grade = {}
           \/ \E g \in 0..100 : submissions'[i].grade = {g}
      /\ \A i \in 1..Len(submissions') :
           IF i > Len(submissions)
             THEN submissions'[i].grade = {}
           ELSE /\ submissions[i].grade # {} => submissions'[i].grade # {}
                /\ submissions'[i].grade # submissions[i].grade
                     => \E s \in Slots : /\ Reviewed(s)
                                         /\ calls'[s].req.id = i
                                         /\ calls'[s].req.grade.type = "number"
                                         /\ submissions'[i].grade = {calls'[s].req.grade.val}
      /\ \A s \in Slots :
           Reviewed(s) /\ calls'[s].req.grade.type # "undefined"
             => submissions'[calls'[s].req.id].grade # {}
    ]_vars

\* C31 witness: a review with grade 85 and a review without a grade of the
\* same submission have both succeeded, and the submission has grade 85
C31_Witness ==
  \E s, t \in Slots :
    /\ calls[s].pc = "done" /\ calls[s].op = "reviewSubmission" /\ calls[s].kind = "OK"
    /\ calls[t].pc = "done" /\ calls[t].op = "reviewSubmission" /\ calls[t].kind = "OK"
    /\ calls[s].req.id = calls[t].req.id
    /\ calls[s].req.grade = [type |-> "number", val |-> 85]
    /\ calls[t].req.grade.type = "undefined"
    /\ submissions[calls[s].req.id].grade = {85}

====
